---- MODULE Spec2Model ----
(***************************************************************************)
(* Quiz-room session engine of the gas-station server (QuizRoom class,     *)
(* REST routes and socket handlers).  One action per handler or timer      *)
(* callback; asynchronous reward dispatch is split at its await points.    *)
(***************************************************************************)
EXTENDS Integers, Sequences, FiniteSets, TLC

VARIABLES
    rooms,      \* heap of QuizRoom objects, indexed by creation order (room.id)
    quizRooms,  \* registry Map: room code -> index into rooms, 0 when absent
    players,    \* global Map: socket id -> NoPlayer or [roomId, address]
    passes,     \* reward dispatch passes suspended at an await
    crashed,    \* the process died on an uncaught exception
    last,       \* the command handled by the last step, its reply and events
    quizzes,    \* QuizNFT objects of the Move module challenge::quiz
    tx          \* the last transaction that called the module and its status

server == <<rooms, quizRooms, players, passes, crashed, last>>

vars == <<rooms, quizRooms, players, passes, crashed, last, quizzes, tx>>

----------------------------------------------------------------------------
(* Bounds of the model *)

MaxScore == 2       \* submissions that would push a score above are not explored
MaxAdvance == 2     \* currentQuestion is explored up to questions.length + MaxAdvance
MaxPending == 1     \* dispatch passes suspended at the same time
MaxCount == 2       \* the count of dispatch passes saturates here
MaxLbPlayers == 4   \* players of a room handed to calculateLeaderboard
MaxRooms == 2       \* rooms created in the registry specification
MaxRanked == 3      \* ranked players of the room in the dispatch specification

Sockets == {"s1", "s2"}
Addresses == {"host", "alice"}
Codes == {"K1"}

(* Program constants *)
DefaultTimePerQuestion == 30
DefaultMaxPlayers == 10
DefaultPoints == 10
MistPerSui == 1000000000

NoPlayer == [roomId |-> "", address |-> ""]
NoAnswer == -1
NoScore == -1

(* Quiz definitions offered to POST /api/rooms *)
Question(c, p) == [correctAnswer |-> c, points |-> p]

Quiz(qs, t, m, a) ==
    [questions |-> qs, timePerQuestion |-> t, maxPlayers |-> m, suiAmount |-> a,
     distribution |-> "top3", manualPercentages |-> <<50, 30, 20>>]

ManualQuiz(qs, t, m, a, percentages) ==
    [Quiz(qs, t, m, a) EXCEPT !.distribution = "manual",
                              !.manualPercentages = percentages]

QuizInputs ==
    { Quiz(<<Question(1, 1), Question(0, 1)>>, 1, 1, 0),
      Quiz(<<Question(1, 1)>>, 1, 2, 0),
      Quiz(<<Question(1, 1)>>, 2, 1, 1),
      Quiz(<< >>, 1, 2, 0) }

(* join-room requests: the socket and the address it claims *)
JoinInputs == { <<"s1", "host">>, <<"s1", "alice">>, <<"s2", "alice">> }

(* submit-answer requests: questionIndex and answerIndex *)
SubmitInputs == { <<0, 1>>, <<1, 1>> }

----------------------------------------------------------------------------
(* Helpers on sequences *)

Min(a, b) == IF a < b THEN a ELSE b

Sat(n) == Min(n + 1, MaxCount)

(* Array.prototype.sort((a, b) => b.score - a.score): stable, descending *)
RECURSIVE InsertByScore(_, _)
InsertByScore(sorted, p) ==
    IF sorted = << >> THEN <<p>>
    ELSE IF Head(sorted).score >= p.score
         THEN <<Head(sorted)>> \o InsertByScore(Tail(sorted), p)
         ELSE <<p>> \o sorted

RECURSIVE SortByScore(_)
SortByScore(s) ==
    IF s = << >> THEN << >>
    ELSE InsertByScore(SortByScore(SubSeq(s, 1, Len(s) - 1)), s[Len(s)])

IndexOf(s, id) ==
    IF \E i \in 1..Len(s) : s[i].id = id
    THEN CHOOSE i \in 1..Len(s) : s[i].id = id
    ELSE 0

----------------------------------------------------------------------------
(* class QuizRoom *)

TimePerQuestion(room) ==
    IF room.quizData.timePerQuestion = 0 THEN DefaultTimePerQuestion
    ELSE room.quizData.timePerQuestion

MaxPlayersOf(room) ==
    IF room.quizData.maxPlayers = 0 THEN DefaultMaxPlayers
    ELSE room.quizData.maxPlayers

NumQuestions(room) == Len(room.quizData.questions)

NewRoom(id, roomCode, quizData, hostAddress) ==
    [id |-> id, roomCode |-> roomCode, quizData |-> quizData,
     hostAddress |-> hostAddress, players |-> << >>, gameState |-> "waiting",
     currentQuestion |-> 0, timeRemaining |-> 0, timerInterval |-> "none",
     rewardsDistributed |-> FALSE,
     \* history, not a field of the class: the dispatch passes of this room
     \* that called the ledger
     dispatchPasses |-> 0]

NewPlayer(room, playerId, address) ==
    [id |-> playerId, address |-> address, score |-> 0,
     answers |-> [q \in 0..(NumQuestions(room) - 1) |-> NoAnswer]]

(* Map.set keeps the position of an existing key and appends a new one *)
addPlayer(room, playerId, address) ==
    LET i == IndexOf(room.players, playerId)
        p == NewPlayer(room, playerId, address)
    IN  [room EXCEPT !.players =
            IF i = 0 THEN Append(@, p) ELSE [@ EXCEPT ![i] = p]]

(* a removal that also resets the room *)
removePlayerResetting(room, playerId) ==
    [room EXCEPT !.players = << >>, !.gameState = "waiting",
                 !.currentQuestion = 0, !.timeRemaining = 0,
                 !.timerInterval = "none"]

removePlayer(room, playerId) ==
    [room EXCEPT !.players = SelectSeq(@, LAMBDA p : p.id # playerId)]

(* io is "io" when the caller passed the socket server and "noio" when the
   argument was left out; the interval closure keeps it *)
startTimerSync(room, io) == [room EXCEPT !.timerInterval = io]

startQuiz(room, io) ==
    startTimerSync([room EXCEPT !.gameState = "playing",
                                !.currentQuestion = 0,
                                !.timeRemaining = TimePerQuestion(room)], io)

(* a leaderboard that filters the host out and leaves the join order *)
calculateLeaderboardJoinOrder(room) ==
    LET playersArray ==
            SelectSeq(room.players, LAMBDA p : p.address # room.hostAddress)
    IN  [i \in 1..Len(playersArray) |->
            [id |-> playersArray[i].id,
             address |-> playersArray[i].address, score |-> playersArray[i].score,
             position |-> i]]

(* the entries keep the fields of the player record and gain position *)
calculateLeaderboard(room) ==
    LET playersArray ==
            SortByScore(SelectSeq(room.players,
                                  LAMBDA p : p.address # room.hostAddress))
    IN  [i \in 1..Len(playersArray) |->
            [id |-> playersArray[i].id,
             address |-> playersArray[i].address, score |-> playersArray[i].score,
             position |-> i]]

(* the leaderboard built inline by finishQuiz and handed to reward dispatch *)
FinishLeaderboard(room) ==
    SortByScore(SelectSeq(room.players, LAMBDA p : p.address # room.hostAddress))

(* a leaderboard that forgets to leave the host out *)
LeaderboardUpdateWithHost(room) ==
    LET sorted == SortByScore(room.players)
    IN  [i \in 1..Len(sorted) |->
            [address |-> sorted[i].address, score |-> sorted[i].score,
             position |-> i]]

(* the leaderboard built inline by the socket handlers *)
LeaderboardUpdate(room) ==
    LET sorted ==
            SortByScore(SelectSeq(room.players,
                                  LAMBDA p : p.address # room.hostAddress))
    IN  [i \in 1..Len(sorted) |->
            [address |-> sorted[i].address, score |-> sorted[i].score,
             position |-> i]]

Addrs(lb) == [i \in 1..Len(lb) |-> lb[i].address]

(* the array finishQuiz hands to reward dispatch holds the player objects
   themselves: id is the key under which the room still holds the object,
   whose score is the one in the room; once the room has dropped or replaced
   the object id is "" and score is the score the object is left with *)
Ranked(lb) ==
    [i \in 1..Len(lb) |->
        [id |-> lb[i].id, address |-> lb[i].address, score |-> NoScore]]

(* the loop of distributeRewardsAndBadges is past a player: nothing reads the
   object again, and only the address is kept *)
Handled(entry) == [entry EXCEPT !.id = "", !.score = NoScore]

(* distributeSUIRewards: the winners of the ledger distribution request *)
Winners(room, lb) ==
    IF room.quizData.distribution = "top3" THEN SubSeq(lb, 1, Min(3, Len(lb)))
    ELSE IF room.quizData.distribution = "manual"
         THEN SubSeq(lb, 1, Min(Len(room.quizData.manualPercentages), Len(lb)))
    ELSE << >>

(* the percentages distributeSUIRewards applies to the ranked players *)
Percentages(room) ==
    IF room.quizData.distribution = "top3" THEN <<50, 30, 20>>
    ELSE room.quizData.manualPercentages

(* Math.floor((totalRewardAmount * percentage) / 100), exact in the doubles
   of the program; computed here on the quotient and the remainder of
   totalRewardAmount by 100 so that no intermediate value leaves 32 bits *)
Share(totalRewardAmount, percentage) ==
    (totalRewardAmount \div 100) * percentage
      + ((totalRewardAmount % 100) * percentage) \div 100

(* the one call of distributeRewardsToWinners a pass makes: winners and
   amounts, computed before the call is awaited *)
Request(room, lb) ==
    [winners |-> Addrs(Winners(room, lb)),
     amounts |-> [i \in 1..Len(Winners(room, lb)) |->
                    Share(room.quizData.suiAmount * MistPerSui,
                          Percentages(room)[i])]]

NoRequest == [winners |-> << >>, amounts |-> << >>]

(* the first await of the pass that waits for the ledger, "" when there is none *)
FirstAwait(room, lb) ==
    IF room.quizData.suiAmount > 0 /\ Winners(room, lb) # << >> THEN "sui"
    ELSE IF lb # << >> THEN "badge"
    ELSE ""

(* finishQuiz up to the first await on the ledger: state change, timer
   cleared, distributeRewardsAndBadges entered *)
finishQuiz(room) ==
    LET fin == [room EXCEPT !.gameState = "finished", !.timerInterval = "none"]
    IN  IF FirstAwait(fin, FinishLeaderboard(fin)) = "" THEN fin
        ELSE [fin EXCEPT !.dispatchPasses = Sat(@)]

(* a reset that leaves the player list in place *)
resetQuizKeepingPlayers(room) ==
    [room EXCEPT !.gameState = "waiting", !.currentQuestion = 0,
                 !.timeRemaining = 0, !.timerInterval = "none"]

resetQuiz(room) ==
    [room EXCEPT !.gameState = "waiting", !.currentQuestion = 0,
                 !.timeRemaining = 0, !.players = << >>,
                 !.timerInterval = "none"]

PointsOf(question) ==
    IF question.points = 0 THEN DefaultPoints ELSE question.points

Earned(room, questionIndex, answer) ==
    LET question == room.quizData.questions[questionIndex + 1]
    IN  IF answer = question.correctAnswer THEN PointsOf(question) ELSE 0

(* returns false, changing nothing, when the player is not in the room;
   questionIndex is an index of quizData.questions *)
submitAnswer(room, playerId, questionIndex, answer) ==
    LET i == IndexOf(room.players, playerId)
    IN  IF i = 0 THEN room
        ELSE [room EXCEPT
                !.players[i].score = @ + Earned(room, questionIndex, answer),
                !.players[i].answers[questionIndex] = answer]

(* an advance that adds the time of a question to the time that is left *)
AdvanceQuestionAddingTime(room) ==
    [room EXCEPT !.currentQuestion = @ + 1,
                 !.timeRemaining = @ + TimePerQuestion(room)]

(* nextQuestion without the finishQuiz call it makes at the end *)
AdvanceQuestion(room) ==
    [room EXCEPT !.currentQuestion = @ + 1,
                 !.timeRemaining = TimePerQuestion(room)]

ReachedEnd(room) == room.currentQuestion >= NumQuestions(room)

(* an advance that never finishes the quiz *)
nextQuestionNeverFinishing(room) == AdvanceQuestion(room)

nextQuestion(room) ==
    IF ReachedEnd(AdvanceQuestion(room)) THEN finishQuiz(AdvanceQuestion(room))
    ELSE AdvanceQuestion(room)

----------------------------------------------------------------------------
(* Reward dispatch: finishQuiz -> distributeRewardsAndBadges *)

Event(name, lb) == [ev |-> name, lb |-> lb]

(* the record of one handled command: r is the room object it resolved to
   (0 when none) and from that room's gameState when the command arrived *)
Cmd(r, op, code, sock, addr, qi, ans, reply, events) ==
    [op |-> op, room |-> r, from |-> IF r = 0 THEN "" ELSE rooms[r].gameState,
     code |-> code, sock |-> sock, addr |-> addr, qi |-> qi, ans |-> ans,
     reply |-> reply, events |-> events]

(* the payload of rewards-distributed: success and the results object *)
DispatchEvent(success, suiRewards, badges) ==
    [ev |-> "rewards-distributed", lb |-> << >>, success |-> success,
     suiRewards |-> suiRewards, badges |-> badges]

(* the entry results.badges gets for the i-th ranked player, pushed before
   the badge is saved and minted *)
(* player.score of an object of the leaderboard array, read now *)
ObjectScore(room, entry) ==
    IF entry.id = "" THEN entry.score
    ELSE room.players[IndexOf(room.players, entry.id)].score

(* badgeData and userBadge of the i-th ranked player: winner, position and
   score: player.score, read when the loop reaches the player *)
BadgeData(room, leaderboard, i) ==
    [winner |-> leaderboard[i].address, position |-> i,
     score |-> ObjectScore(room, leaderboard[i])]

BadgeEntry(leaderboard, i) == [address |-> leaderboard[i].address, position |-> i]

(* a pass suspended at its first await: results.suiRewards is still null;
   when the first await is a badge call the first entry is already pushed *)
NewPass(room, lb) ==
    [room |-> room.id,
     leaderboard |-> IF FirstAwait(room, lb) = "badge"
                     THEN [Ranked(lb) EXCEPT ![1] = Handled(@)]
                     ELSE Ranked(lb),
     pc |-> FirstAwait(room, lb),
     i |-> 1, suiRewards |-> "null",
     request |-> IF FirstAwait(room, lb) = "sui" THEN Request(room, lb)
                 ELSE NoRequest,
     results |-> IF FirstAwait(room, lb) = "badge"
                 THEN <<BadgeEntry(Ranked(lb), 1)>> ELSE << >>]

(* players.set on a key in use, players.delete and players.clear take the
   objects of ids out of room object r; the passes keep them *)
PassesAfterDrop(r, ids) ==
    LET Dropped(entry) ==
            IF entry.id \in ids
            THEN [entry EXCEPT !.id = "", !.score = ObjectScore(rooms[r], entry)]
            ELSE entry
    IN  [k \in 1..Len(passes) |->
            IF passes[k].room # r THEN passes[k]
            ELSE [passes[k] EXCEPT !.leaderboard =
                     [i \in 1..Len(@) |-> Dropped(@[i])]]]

(* finishQuiz can run: its dispatch pass fits the bound on suspended passes *)
FinishFits(room) ==
    FirstAwait(room, FinishLeaderboard(room)) = "" \/ Len(passes) < MaxPending

(* passes after finishQuiz(room) has run up to its first real await *)
PassesAfterFinish(room) ==
    IF FirstAwait(room, FinishLeaderboard(room)) = "" THEN passes
    ELSE Append(passes, NewPass(room, FinishLeaderboard(room)))

(* a finish that announces the outcome of dispatch before the leaderboard *)
FinishEventsOutcomeFirst(room) ==
    <<DispatchEvent(TRUE, "null", << >>),
      Event("quiz-finished", FinishLeaderboard(room))>>

(* events emitted by finishQuiz before it is suspended *)
FinishEvents(room) ==
    <<Event("quiz-finished", FinishLeaderboard(room))>> \o
    (IF FirstAwait(room, FinishLeaderboard(room)) = ""
     THEN <<DispatchEvent(TRUE,
                          IF room.quizData.suiAmount > 0 THEN "ok" ELSE "null",
                          << >>)>>
     ELSE << >>)

RemoveAt(s, k) == SubSeq(s, 1, k - 1) \o SubSeq(s, k + 1, Len(s))

(* distributeRewardsToWinners returned: the ledger accepted the request or not *)
LedgerReturn(k, ok) ==
    /\ ~crashed
    /\ k \in 1..Len(passes)
    /\ passes[k].pc = "sui"
    /\ rooms' = [rooms EXCEPT ![passes[k].room].rewardsDistributed =
                    IF ok THEN TRUE ELSE @]
    /\ passes' = [passes EXCEPT
                     ![k].pc = "badge",
                     ![k].suiRewards = IF ok THEN "ok" ELSE "failed",
                     ![k].results = <<BadgeEntry(passes[k].leaderboard, 1)>>,
                     ![k].leaderboard[1] = Handled(@)]
    /\ last' = Cmd(passes[k].room, "ledger-return",
                   rooms[passes[k].room].roomCode, "", "", -1, -1,
                   IF ok THEN "ok" ELSE "failed",
                   << >>)
    /\ UNCHANGED <<quizRooms, players, crashed, quizzes, tx>>

(* saveUserBadges and mintBadgeOnBlockchain returned for the i-th ranked player;
   a failed mint is logged and the loop goes on *)
BadgeReturn(k, ok) ==
    /\ ~crashed
    /\ k \in 1..Len(passes)
    /\ passes[k].pc = "badge"
    /\ IF passes[k].i < Len(passes[k].leaderboard)
       THEN /\ passes' = [passes EXCEPT
                             ![k].i = @ + 1,
                             ![k].results =
                                Append(@, BadgeEntry(passes[k].leaderboard,
                                                     passes[k].i + 1)),
                             ![k].leaderboard[passes[k].i + 1] = Handled(@)]
            /\ last' = Cmd(passes[k].room, "badge-return",
                           rooms[passes[k].room].roomCode, "", "",
                           -1, -1,
                           IF ok THEN "ok" ELSE "failed", << >>)
       ELSE /\ passes' = RemoveAt(passes, k)
            /\ last' = Cmd(passes[k].room, "badge-return",
                           rooms[passes[k].room].roomCode, "", "",
                           -1, -1,
                           IF ok THEN "ok" ELSE "failed",
                           <<DispatchEvent(TRUE, passes[k].suiRewards,
                                           passes[k].results)>>)
    /\ UNCHANGED <<rooms, quizRooms, players, crashed, quizzes, tx>>

----------------------------------------------------------------------------
(* REST routes *)

(* a host check that lets every caller through *)
IsHostAnyCaller(room, address) == TRUE

(* the host check every host-only command makes *)
IsHost(room, address) == room.hostAddress = address

(* a stop that resets the room the way a host disconnect does *)
StopQuizClearingPlayers(room) ==
    [room EXCEPT !.gameState = "waiting", !.currentQuestion = 0,
                 !.timeRemaining = 0, !.timerInterval = "none",
                 !.players = << >>]

(* the body of the stop route: back to waiting, timer cleared *)
StopQuiz(room) ==
    [room EXCEPT !.gameState = "waiting", !.currentQuestion = 0,
                 !.timeRemaining = 0, !.timerInterval = "none"]

SetRoom(r, room) == [rooms EXCEPT ![r] = room]

(* POST /api/rooms; generateRoomCode draws the code at random *)
PostRooms(quizData, hostAddress) ==
    /\ ~crashed
    /\ \E roomCode \in DOMAIN quizRooms :
        /\ rooms' = Append(rooms, NewRoom(Len(rooms) + 1, roomCode, quizData,
                                          hostAddress))
        /\ quizRooms' = [quizRooms EXCEPT ![roomCode] = Len(rooms) + 1]
        /\ last' = Cmd(0, "create", roomCode, "", hostAddress, -1, -1, "200", << >>)
    /\ UNCHANGED <<players, passes, crashed, quizzes, tx>>

(* POST /api/rooms/:roomCode/start *)
PostStart(roomCode, hostAddress) ==
    LET r == quizRooms[roomCode]
        reply == IF r = 0 THEN "404"
                 ELSE IF ~IsHost(rooms[r], hostAddress) THEN "403"
                 ELSE IF NumQuestions(rooms[r]) = 0 THEN "400"
                 ELSE "200"
    IN  /\ ~crashed
        /\ rooms' = IF reply = "200" THEN SetRoom(r, startQuiz(rooms[r], "io"))
                    ELSE rooms
        /\ last' = Cmd(r, "start", roomCode, "", hostAddress, -1, -1,
                       reply,
                       IF reply = "200" THEN <<Event("quiz-started", << >>)>>
                       ELSE << >>)
        /\ UNCHANGED <<quizRooms, players, passes, crashed, quizzes, tx>>

(* POST /api/rooms/:roomCode/stop *)
PostStop(roomCode, hostAddress) ==
    LET r == quizRooms[roomCode]
        reply == IF r = 0 THEN "404"
                 ELSE IF ~IsHost(rooms[r], hostAddress) THEN "403"
                 ELSE "200"
    IN  /\ ~crashed
        /\ rooms' = IF reply = "200"
                    THEN SetRoom(r, StopQuiz(rooms[r]))
                    ELSE rooms
        /\ last' = Cmd(r, "stop", roomCode, "", hostAddress, -1, -1,
                       reply,
                       IF reply = "200" THEN <<Event("quiz-stopped", << >>)>>
                       ELSE << >>)
        /\ UNCHANGED <<quizRooms, players, passes, crashed, quizzes, tx>>

(* a delete that removes the room without telling its connections *)
DeleteRoomSilently(roomCode, hostAddress) ==
    LET r == quizRooms[roomCode]
        reply == IF r = 0 THEN "404"
                 ELSE IF ~IsHost(rooms[r], hostAddress) THEN "403"
                 ELSE "200"
    IN  /\ ~crashed
        /\ quizRooms' = IF reply = "200" THEN [quizRooms EXCEPT ![roomCode] = 0]
                        ELSE quizRooms
        /\ last' = Cmd(r, "delete", roomCode, "", hostAddress, -1, -1,
                       reply, << >>)
        /\ UNCHANGED <<rooms, players, passes, crashed, quizzes, tx>>

(* DELETE /api/rooms/:roomCode *)
DeleteRoom(roomCode, hostAddress) ==
    LET r == quizRooms[roomCode]
        reply == IF r = 0 THEN "404"
                 ELSE IF ~IsHost(rooms[r], hostAddress) THEN "403"
                 ELSE "200"
    IN  /\ ~crashed
        /\ quizRooms' = IF reply = "200" THEN [quizRooms EXCEPT ![roomCode] = 0]
                        ELSE quizRooms
        /\ last' = Cmd(r, "delete", roomCode, "", hostAddress, -1, -1,
                       reply,
                       IF reply = "200" THEN <<Event("room-closed", << >>)>>
                       ELSE << >>)
        /\ UNCHANGED <<rooms, players, passes, crashed, quizzes, tx>>

----------------------------------------------------------------------------
(* Socket handlers *)

(* join-room without the capacity check *)
JoinErrorNoCapacityCheck(r) ==
    IF r = 0 THEN "Room not found"
    ELSE IF rooms[r].gameState # "waiting" THEN "Game has already started"
    ELSE ""

(* join-room without the gameState check *)
JoinErrorNoStateCheck(r) ==
    IF r = 0 THEN "Room not found"
    ELSE IF Len(rooms[r].players) >= MaxPlayersOf(rooms[r]) THEN "Room is full"
    ELSE ""

(* the checks of join-room, in order; "" when the join goes through *)
JoinError(r) ==
    IF r = 0 THEN "Room not found"
    ELSE IF rooms[r].gameState # "waiting" THEN "Game has already started"
    ELSE IF Len(rooms[r].players) >= MaxPlayersOf(rooms[r]) THEN "Room is full"
    ELSE ""

OnJoinRoom(sock, roomCode, address) ==
    LET r == quizRooms[roomCode]
        err == JoinError(r)
        joined == addPlayer(rooms[r], sock, address)
    IN  /\ ~crashed
        /\ IF err = ""
           THEN /\ rooms' = SetRoom(r, joined)
                /\ players' = [players EXCEPT ![sock] =
                                 [roomId |-> roomCode, address |-> address]]
                /\ last' = Cmd(r, "join", roomCode, sock, address, -1, -1, "ok",
                               <<Event("player-joined", << >>),
                                 Event("leaderboard-update", LeaderboardUpdate(joined)),
                                 Event("room-state", LeaderboardUpdate(joined))>>)
                /\ passes' = PassesAfterDrop(r, {sock})
           ELSE /\ last' = Cmd(r, "join", roomCode, sock, address, -1, -1, err,
                               <<Event("error", << >>)>>)
                /\ UNCHANGED <<rooms, players, passes>>
        /\ UNCHANGED <<quizRooms, crashed, quizzes, tx>>

OnLeaveRoom(sock) ==
    LET player == players[sock]
        r == IF player = NoPlayer THEN 0 ELSE quizRooms[player.roomId]
    IN  /\ ~crashed
        /\ rooms' = IF r # 0 THEN SetRoom(r, removePlayer(rooms[r], sock)) ELSE rooms
        /\ players' = [players EXCEPT ![sock] = NoPlayer]
        /\ last' = Cmd(r, "leave", player.roomId, sock, player.address, -1, -1,
                       IF player = NoPlayer THEN "ignored" ELSE "ok",
                       IF r # 0 THEN <<Event("player-left", << >>)>> ELSE << >>)
        /\ passes' = IF r # 0 THEN PassesAfterDrop(r, {sock}) ELSE passes
        /\ UNCHANGED <<quizRooms, crashed, quizzes, tx>>

(* start-quiz calls room.startQuiz() without the socket server *)
OnStartQuiz(sock) ==
    LET player == players[sock]
        r == IF player = NoPlayer THEN 0 ELSE quizRooms[player.roomId]
        reply == IF player = NoPlayer THEN "ignored"
                 ELSE IF r = 0 \/ ~IsHost(rooms[r], player.address)
                      THEN "Only host can start the quiz"
                 ELSE "ok"
    IN  /\ ~crashed
        /\ rooms' = IF reply = "ok" THEN SetRoom(r, startQuiz(rooms[r], "noio"))
                    ELSE rooms
        /\ last' = Cmd(r, "start-quiz", player.roomId, sock, player.address, -1, -1,
                       reply,
                       IF reply = "ok" THEN <<Event("quiz-started", << >>)>>
                       ELSE IF reply = "ignored" THEN << >>
                       ELSE <<Event("error", << >>)>>)
        /\ UNCHANGED <<quizRooms, players, passes, crashed, quizzes, tx>>

OnSubmitAnswer(sock, questionIndex, answerIndex) ==
    LET player == players[sock]
        r == IF player = NoPlayer THEN 0 ELSE quizRooms[player.roomId]
        handled == r # 0 /\ rooms[r].gameState = "playing"
        success == handled /\ IndexOf(rooms[r].players, sock) # 0
        after == submitAnswer(rooms[r], sock, questionIndex, answerIndex)
    IN  /\ ~crashed
        /\ handled => questionIndex < NumQuestions(rooms[r])
        /\ success =>
             rooms[r].players[IndexOf(rooms[r].players, sock)].score
               + Earned(rooms[r], questionIndex, answerIndex) <= MaxScore
        /\ rooms' = IF success THEN SetRoom(r, after) ELSE rooms
        /\ last' = Cmd(r, "submit-answer", player.roomId, sock, player.address,
                       questionIndex, answerIndex,
                       IF success THEN "ok" ELSE "ignored",
                       IF success
                       THEN <<Event("answer-submitted", << >>),
                              Event("leaderboard-update", LeaderboardUpdate(after))>>
                       ELSE << >>)
        /\ UNCHANGED <<quizRooms, players, passes, crashed, quizzes, tx>>

OnNextQuestion(sock) ==
    LET player == players[sock]
        r == IF player = NoPlayer THEN 0 ELSE quizRooms[player.roomId]
        reply == IF player = NoPlayer THEN "ignored"
                 ELSE IF r = 0 \/ ~IsHost(rooms[r], player.address)
                      THEN "Only host can control the quiz"
                 ELSE "ok"
        after == nextQuestion(rooms[r])
        finishing == ReachedEnd(AdvanceQuestion(rooms[r]))
    IN  /\ ~crashed
        /\ reply = "ok" =>
             /\ rooms[r].currentQuestion < NumQuestions(rooms[r]) + MaxAdvance
             /\ finishing => FinishFits(after)
        /\ rooms' = IF reply # "ok" THEN rooms
                    ELSE IF after.gameState = "finished" THEN SetRoom(r, after)
                    ELSE SetRoom(r, startTimerSync(after, "io"))
        /\ passes' = IF reply = "ok" /\ finishing THEN PassesAfterFinish(after)
                     ELSE passes
        /\ last' = Cmd(r, "next-question", player.roomId, sock, player.address, -1, -1,
                       reply,
                       IF reply = "ignored" THEN << >>
                       ELSE IF reply # "ok" THEN <<Event("error", << >>)>>
                       ELSE IF finishing THEN FinishEvents(after)
                       ELSE IF after.gameState = "finished" THEN << >>
                       ELSE <<Event("next-question", << >>)>>)
        /\ UNCHANGED <<quizRooms, players, crashed, quizzes, tx>>

OnDisconnect(sock) ==
    LET player == players[sock]
        r == IF player = NoPlayer THEN 0 ELSE quizRooms[player.roomId]
        hostLeft == r # 0 /\ IsHost(rooms[r], player.address)
    IN  /\ ~crashed
        /\ rooms' = IF r = 0 THEN rooms
                    ELSE IF hostLeft
                         THEN SetRoom(r, resetQuiz(removePlayer(rooms[r], sock)))
                    ELSE SetRoom(r, removePlayer(rooms[r], sock))
        /\ players' = [players EXCEPT ![sock] = NoPlayer]
        /\ last' = Cmd(r, "disconnect", player.roomId, sock, player.address, -1, -1,
                       IF player = NoPlayer THEN "ignored" ELSE "ok",
                       IF r = 0 THEN << >>
                       ELSE IF hostLeft THEN <<Event("host-disconnected", << >>)>>
                       ELSE <<Event("player-left", << >>)>>)
        /\ passes' = IF r = 0 THEN passes
                     ELSE IF hostLeft
                          THEN PassesAfterDrop(r,
                                  {rooms[r].players[i].id :
                                      i \in 1..Len(rooms[r].players)})
                     ELSE PassesAfterDrop(r, {sock})
        /\ UNCHANGED <<quizRooms, crashed, quizzes, tx>>

----------------------------------------------------------------------------
(* Timer *)

(* handleTimeUp: next question and a new interval, or finishQuiz *)
handleTimeUp(room) ==
    IF room.currentQuestion < NumQuestions(room) - 1
    THEN startTimerSync(nextQuestion(room), "io")
    ELSE finishQuiz(room)

TimeUpFinishes(room) == ~(room.currentQuestion < NumQuestions(room) - 1)

(* a callback guard that does not look at gameState *)
TickActiveIgnoringState(room) == room.timeRemaining > 0

(* the guard of the interval callback *)
TickActive(room) == room.gameState = "playing" /\ room.timeRemaining > 0

(* one firing of the interval of room object r, armed with the socket server
   or idle because the guard of the callback is false *)
TimerTick(r) ==
    LET room == rooms[r]
        ticked == [room EXCEPT !.timeRemaining = @ - 1]
        after == IF ticked.timeRemaining = 0 THEN handleTimeUp(ticked) ELSE ticked
        finishing == ticked.timeRemaining = 0 /\ TimeUpFinishes(ticked)
    IN  /\ ~crashed
        /\ r \in 1..Len(rooms)
        /\ room.timerInterval # "none"
        /\ TickActive(room) => room.timerInterval = "io"
        /\ TickActive(room) /\ finishing => FinishFits(after)
        /\ rooms' = IF TickActive(room) THEN SetRoom(r, after) ELSE rooms
        /\ passes' = IF TickActive(room) /\ finishing THEN PassesAfterFinish(after)
                     ELSE passes
        /\ last' = Cmd(r, "tick", room.roomCode, "", "", -1, -1,
                       IF TickActive(room) THEN "ok" ELSE "idle",
                       IF ~TickActive(room) THEN << >>
                       ELSE <<Event("timer-update", << >>)>> \o
                            (IF ticked.timeRemaining # 0 THEN << >>
                             ELSE IF finishing THEN FinishEvents(after)
                             ELSE <<Event("next-question", << >>)>>))
        /\ UNCHANGED <<quizRooms, players, crashed, quizzes, tx>>

(* an interval armed without the socket server: the callback decrements
   timeRemaining and then throws on io.to, outside any try block; nothing
   handles the exception and the process exits, losing the in-memory state *)
TimerTickCrash(r) ==
    /\ ~crashed
    /\ r \in 1..Len(rooms)
    /\ rooms[r].timerInterval = "noio"
    /\ TickActive(rooms[r])
    /\ rooms' = << >>
    /\ quizRooms' = [c \in Codes |-> 0]
    /\ players' = [s \in Sockets |-> NoPlayer]
    /\ passes' = << >>
    /\ crashed' = TRUE
    /\ last' = Cmd(r, "tick", rooms[r].roomCode, "", "", -1, -1,
                   "crash", << >>)
    /\ UNCHANGED <<quizzes, tx>>

----------------------------------------------------------------------------
(* Move module challenge::quiz: the QuizNFT object and the entry functions
   that touch its reward pool.  A transaction that aborts changes nothing. *)

MaxQuizzes == 2     \* QuizNFT objects created
MaxAmount == 1      \* payments, reward amounts and winner amounts, in MIST
MaxWinners == 2     \* length of the winners and amounts vectors

LedgerAddresses == {"host", "alice"}

WinnerLists == { SubSeq(<<"alice", "bob", "carol">>, 1, n) : n \in 0..MaxWinners }

AmountLists == UNION { [1..n -> 0..MaxAmount] : n \in 0..MaxWinners }

Tx(fn, quiz, sender, winners, amounts, status) ==
    [fn |-> fn, quiz |-> quiz, sender |-> sender, winners |-> winners,
     amounts |-> amounts, status |-> status]

NoTx == Tx("", 0, "", << >>, << >>, "")

InitLedger == quizzes = << >> /\ tx = NoTx

(* the object create_quiz builds and transfers to its creator; exists is
   false once submit_quiz_answers has deleted the object *)
QuizNFT(creator, sui_reward_amount, payment_amount) ==
    [creator |-> creator, owner |-> creator,
     sui_reward_amount |-> sui_reward_amount,
     reward_pool_amount |-> payment_amount,
     is_payment_collected |-> TRUE, is_rewards_distributed |-> FALSE,
     exists |-> TRUE]

(* an owned object enters a transaction only when its owner signs it *)
Usable(q, sender) ==
    q \in 1..Len(quizzes) /\ quizzes[q].exists /\ quizzes[q].owner = sender

create_quiz(sender, sui_reward_amount, payment_amount) ==
    /\ Len(quizzes) < MaxQuizzes
    /\ IF payment_amount >= sui_reward_amount
       THEN /\ quizzes' = Append(quizzes,
                                 QuizNFT(sender, sui_reward_amount, payment_amount))
            /\ tx' = Tx("create_quiz", Len(quizzes) + 1, sender, << >>, << >>,
                        "success")
       ELSE /\ quizzes' = quizzes
            /\ tx' = Tx("create_quiz", 0, sender, << >>, << >>, "abort 0")
    /\ UNCHANGED server

(* the loop that adds up amounts; the u64 sum aborts on overflow, which the
   amounts explored here do not reach *)
RECURSIVE total_distributed(_)
total_distributed(amounts) ==
    IF amounts = << >> THEN 0
    ELSE Head(amounts) + total_distributed(Tail(amounts))

(* distribute_rewards without the check that rewards are not yet distributed *)
DistributeStatusRepeatable(quiz, sender, winners, amounts) ==
    IF quiz.creator # sender THEN "abort 1"
    ELSE IF ~quiz.is_payment_collected THEN "abort 3"
    ELSE IF Len(winners) # Len(amounts) THEN "abort 4"
    ELSE IF ~(total_distributed(amounts) <= quiz.reward_pool_amount)
         THEN "abort 5"
    ELSE "success"

(* the assertions of distribute_rewards, in order *)
DistributeStatus(quiz, sender, winners, amounts) ==
    IF quiz.creator # sender THEN "abort 1"
    ELSE IF quiz.is_rewards_distributed THEN "abort 2"
    ELSE IF ~quiz.is_payment_collected THEN "abort 3"
    ELSE IF Len(winners) # Len(amounts) THEN "abort 4"
    ELSE IF ~(total_distributed(amounts) <= quiz.reward_pool_amount)
         THEN "abort 5"
    ELSE "success"

distribute_rewards(q, sender, winners, amounts) ==
    LET status == DistributeStatus(quizzes[q], sender, winners, amounts)
    IN  /\ Usable(q, sender)
        /\ quizzes' = IF status = "success"
                      THEN [quizzes EXCEPT
                              ![q].is_rewards_distributed = TRUE,
                              ![q].reward_pool_amount =
                                 @ - total_distributed(amounts)]
                      ELSE quizzes
        /\ tx' = Tx("distribute_rewards", q, sender, winners, amounts, status)
        /\ UNCHANGED server

(* the assertions of refund_remaining_rewards, in order *)
RefundStatus(quiz, sender) ==
    IF quiz.creator # sender THEN "abort 1"
    ELSE IF ~quiz.is_rewards_distributed THEN "abort 5"
    ELSE "success"

refund_remaining_rewards(q, sender) ==
    LET status == RefundStatus(quizzes[q], sender)
    IN  /\ Usable(q, sender)
        /\ quizzes' = IF status = "success" /\ quizzes[q].reward_pool_amount > 0
                      THEN [quizzes EXCEPT ![q].reward_pool_amount = 0]
                      ELSE quizzes
        /\ tx' = Tx("refund_remaining_rewards", q, sender, << >>, << >>, status)
        /\ UNCHANGED server

(* submit_quiz_answers takes the object by value and deletes it *)
submit_quiz_answers(q, sender) ==
    /\ Usable(q, sender)
    /\ quizzes' = [quizzes EXCEPT ![q].exists = FALSE]
    /\ tx' = Tx("submit_quiz_answers", q, sender, << >>, << >>, "success")
    /\ UNCHANGED server

(* QuizNFT has store: its owner can transfer it to another address *)
public_transfer(q, sender, recipient) ==
    /\ Usable(q, sender)
    /\ recipient # sender
    /\ quizzes' = [quizzes EXCEPT ![q].owner = recipient]
    /\ tx' = Tx("public_transfer", q, sender, << >>, << >>, "success")
    /\ UNCHANGED server

----------------------------------------------------------------------------
(* Specification *)

Init ==
    /\ rooms = << >>
    /\ quizRooms = [c \in Codes |-> 0]
    /\ players = [s \in Sockets |-> NoPlayer]
    /\ passes = << >>
    /\ crashed = FALSE
    /\ last = Cmd(0, "boot", "", "", "", -1, -1, "", << >>)
    /\ InitLedger

Next ==
    \/ rooms = << >> /\ \E quizData \in QuizInputs : PostRooms(quizData, "host")
    \/ \E c \in Codes, a \in Addresses : PostStart(c, a)
    \/ \E c \in Codes, a \in Addresses : PostStop(c, a)
    \/ \E c \in Codes, a \in Addresses : DeleteRoom(c, a)
    \/ \E j \in JoinInputs, c \in Codes : OnJoinRoom(j[1], c, j[2])
    \/ \E s \in Sockets : OnLeaveRoom(s)
    \/ \E s \in Sockets : OnStartQuiz(s)
    \/ \E s \in Sockets, a \in SubmitInputs : OnSubmitAnswer(s, a[1], a[2])
    \/ \E s \in Sockets : OnNextQuestion(s)
    \/ \E s \in Sockets : OnDisconnect(s)
    \/ \E r \in 1..Len(rooms) : TimerTick(r)
    \/ \E r \in 1..Len(rooms) : TimerTickCrash(r)
    \/ \E k \in 1..MaxPending, ok \in BOOLEAN : LedgerReturn(k, ok)
    \/ \E k \in 1..MaxPending, ok \in BOOLEAN : BadgeReturn(k, ok)

(* one room, created once; every command of the host and of two connections *)
Spec == Init /\ [][Next]_vars

----------------------------------------------------------------------------
(* calculateLeaderboard as a function of the players of a room *)

LbIds == <<"s1", "s2", "s3", "s4", "s5">>
LbAddresses == {"host", "alice", "bob"}

(* player lists in join order: any addresses, any scores *)
LbPlayers ==
    UNION { [1..n -> LbAddresses \X (0..MaxScore)] :
              n \in 0..Min(MaxLbPlayers, Len(LbIds)) }

LbRoom(f) ==
    [NewRoom(1, "K1", Quiz(<<Question(1, 1)>>, 1, DefaultMaxPlayers, 0), "host")
       EXCEPT !.players =
          [i \in DOMAIN f |->
              [id |-> LbIds[i], address |-> f[i][1], score |-> f[i][2],
               answers |-> [q \in 0..0 |-> NoAnswer]]]]

InitLeaderboard ==
    /\ \E f \in LbPlayers : rooms = <<LbRoom(f)>>
    /\ quizRooms = [c \in Codes |-> 1]
    /\ players = [s \in Sockets |-> NoPlayer]
    /\ passes = << >>
    /\ crashed = FALSE
    /\ last = Cmd(0, "boot", "", "", "", -1, -1, "", << >>)
    /\ InitLedger

(* room.calculateLeaderboard() and the leaderboard the submit-answer handler
   builds inline, on the same players *)
CalculateLeaderboard(r) ==
    /\ last.op = "boot"
    /\ last' = Cmd(r, "leaderboard", rooms[r].roomCode, "", "", -1, -1, "ok",
                   <<Event("leaderboard", calculateLeaderboard(rooms[r])),
                     Event("leaderboard-update", LeaderboardUpdate(rooms[r]))>>)
    /\ UNCHANGED <<rooms, quizRooms, players, passes, crashed, quizzes, tx>>

NextLeaderboard == \E r \in 1..Len(rooms) : CalculateLeaderboard(r)

SpecLeaderboard == InitLeaderboard /\ [][NextLeaderboard]_vars

----------------------------------------------------------------------------
(* The registry under repeated creation: two codes the generator can draw *)

RegistryCodes == {"K1", "K2"}

(* quiz definitions of the registry specification: the ones above and two
   with a manual percentage list, one summing to 100 and one to 90 *)
RegistryQuizInputs ==
    QuizInputs \cup
    { ManualQuiz(<<Question(1, 1)>>, 1, 2, 1, <<70, 30>>),
      ManualQuiz(<<Question(1, 1)>>, 1, 2, 1, <<60, 30>>) }

InitRegistry ==
    /\ rooms = << >>
    /\ quizRooms = [c \in RegistryCodes |-> 0]
    /\ players = [s \in Sockets |-> NoPlayer]
    /\ passes = << >>
    /\ crashed = FALSE
    /\ last = Cmd(0, "boot", "", "", "", -1, -1, "", << >>)
    /\ InitLedger

NextRegistry ==
    \/ /\ Len(rooms) < MaxRooms
       /\ \E quizData \in RegistryQuizInputs : PostRooms(quizData, "host")
    \/ \E c \in RegistryCodes, a \in Addresses : DeleteRoom(c, a)
    \/ \E j \in JoinInputs, c \in RegistryCodes : OnJoinRoom(j[1], c, j[2])

SpecRegistry == InitRegistry /\ [][NextRegistry]_vars

----------------------------------------------------------------------------
(* Reward dispatch of a room that is about to finish: the host on connection
   s1 and up to MaxRanked players, the last question running *)

DispatchAddresses == <<"alice", "bob", "carol", "dave">>

DispatchPlayer(i, score) ==
    [id |-> LbIds[i + 1], address |-> DispatchAddresses[i], score |-> score,
     answers |-> [q \in 0..0 |-> IF score > 0 THEN 1 ELSE NoAnswer]]

(* the reward policies of the room: the top-3 split and a manual list that
   POST /api/rooms accepts although it sums to 130 *)
DispatchQuizzes(suiAmount) ==
    { Quiz(<<Question(1, 1)>>, 1, DefaultMaxPlayers, suiAmount),
      ManualQuiz(<<Question(1, 1)>>, 1, DefaultMaxPlayers, suiAmount, <<80, 50>>) }

DispatchRoom(quizData, scores) ==
    [NewRoom(1, "K1", quizData, "host")
       EXCEPT !.players =
                 <<[id |-> LbIds[1], address |-> "host", score |-> 0,
                    answers |-> [q \in 0..0 |-> NoAnswer]]>> \o
                 [i \in DOMAIN scores |-> DispatchPlayer(i, scores[i])],
              !.gameState = "playing", !.timeRemaining = 1,
              !.timerInterval = "io"]

InitDispatch ==
    /\ \E suiAmount \in 0..1,
          n \in 1..Min(MaxRanked, Len(DispatchAddresses)) :
          \E scores \in [1..n -> 0..1], quizData \in DispatchQuizzes(suiAmount) :
             /\ rooms = <<DispatchRoom(quizData, scores)>>
             /\ players =
                   [s \in {LbIds[i] : i \in 1..(n + 1)} |->
                      [roomId |-> "K1",
                       address |-> IF s = LbIds[1] THEN "host"
                                   ELSE DispatchAddresses[
                                          CHOOSE i \in 1..n : LbIds[i + 1] = s]]]
    /\ quizRooms = [c \in Codes |-> 1]
    /\ passes = << >>
    /\ crashed = FALSE
    /\ last = Cmd(0, "boot", "", "", "", -1, -1, "", << >>)
    /\ InitLedger

NextDispatch ==
    \/ \E r \in 1..Len(rooms) : TimerTick(r)
    \/ OnNextQuestion(LbIds[1])
    \/ \E c \in Codes : PostStart(c, "host")
    \/ \E k \in 1..MaxPending, ok \in BOOLEAN : LedgerReturn(k, ok)
    \/ \E k \in 1..MaxPending, ok \in BOOLEAN : BadgeReturn(k, ok)

(* a pending call of the ledger or of the badge store returns *)
DispatchReturn ==
    \E k \in 1..MaxPending, ok \in BOOLEAN : LedgerReturn(k, ok) \/ BadgeReturn(k, ok)

(* every awaited collaborator call returns, with success or with failure *)
SpecDispatch == InitDispatch /\ [][NextDispatch]_vars /\ WF_vars(DispatchReturn)

----------------------------------------------------------------------------
(* A room left to its timer: the host on connection s1 and a player on s2
   have joined; the host starts the quiz over HTTP or over the socket and
   sends nothing more; the player answers *)

TimerQuizInputs ==
    { Quiz(<<Question(1, 1), Question(0, 1)>>, 2, 2, 0),
      Quiz(<<Question(1, 1)>>, 1, 2, 1) }

TimerRoom(quizData) ==
    addPlayer(addPlayer(NewRoom(1, "K1", quizData, "host"), "s1", "host"),
              "s2", "alice")

InitTimer ==
    /\ \E quizData \in TimerQuizInputs : rooms = <<TimerRoom(quizData)>>
    /\ quizRooms = [c \in Codes |-> 1]
    /\ players = [s \in Sockets |->
                    [roomId |-> "K1",
                     address |-> IF s = "s1" THEN "host" ELSE "alice"]]
    /\ passes = << >>
    /\ crashed = FALSE
    /\ last = Cmd(0, "boot", "", "", "", -1, -1, "", << >>)
    /\ InitLedger

Waiting(r) == rooms[r].gameState = "waiting"

NextTimer ==
    \/ \E r \in 1..Len(rooms) : Waiting(r) /\ PostStart(rooms[r].roomCode, "host")
    \/ \E r \in 1..Len(rooms) : Waiting(r) /\ OnStartQuiz("s1")
    \/ \E a \in SubmitInputs : OnSubmitAnswer("s2", a[1], a[2])
    \/ \E r \in 1..Len(rooms) : TimerTick(r)
    \/ \E r \in 1..Len(rooms) : TimerTickCrash(r)
    \/ \E k \in 1..MaxPending, ok \in BOOLEAN : LedgerReturn(k, ok)
    \/ \E k \in 1..MaxPending, ok \in BOOLEAN : BadgeReturn(k, ok)

(* setInterval fires the callback of an armed interval, whatever it does *)
TimerFires == \E r \in 1..Len(rooms) : TimerTick(r) \/ TimerTickCrash(r)

(* the armed interval of a room keeps firing *)
SpecTimer == InitTimer /\ [][NextTimer]_vars /\ WF_vars(TimerFires)

----------------------------------------------------------------------------
(* The Move module on its own: transactions of two addresses on up to
   MaxQuizzes quiz objects *)

NextQuiz ==
    \/ \E sender \in LedgerAddresses, reward \in 0..MaxAmount,
          payment \in 0..MaxAmount : create_quiz(sender, reward, payment)
    \/ \E q \in 1..MaxQuizzes, sender \in LedgerAddresses,
          winners \in WinnerLists, amounts \in AmountLists :
          distribute_rewards(q, sender, winners, amounts)
    \/ \E q \in 1..MaxQuizzes, sender \in LedgerAddresses :
          refund_remaining_rewards(q, sender)
    \/ \E q \in 1..MaxQuizzes, sender \in LedgerAddresses :
          submit_quiz_answers(q, sender)
    \/ \E q \in 1..MaxQuizzes, sender, recipient \in LedgerAddresses :
          public_transfer(q, sender, recipient)

SpecQuiz == Init /\ [][NextQuiz]_vars

----------------------------------------------------------------------------
(* Properties *)

RoomIds == 1..Len(rooms)

HasEvent(cmd, name) == \E i \in 1..Len(cmd.events) : cmd.events[i].ev = name

HostOnlyOps == {"start", "stop", "delete", "start-quiz", "next-question"}

Accepted(cmd) == cmd.reply \in {"ok", "200"}

(* the caller of cmd is not the host of the room the command names *)
NotHostOf(cmd) == cmd.room = 0 \/ rooms[cmd.room].hostAddress # cmd.addr

ScoredPlayer(room) == \E i \in 1..Len(room.players) : room.players[i].score > 0

(* C1: reward dispatch is at-most-once per room: however often finish is
   invoked on a room, at most one dispatch pass ever calls the ledger for it *)
C1_DispatchAtMostOnce == \A r \in RoomIds : rooms[r].dispatchPasses <= 1

(* C2: once a room is finished, a host next-question is rejected: it leaves
   gameState, currentQuestion and timeRemaining alone and emits no further
   quiz-finished *)
C2_AdvanceAfterFinishRejected ==
    [][(last'.op = "next-question" /\ last'.room # 0
          /\ rooms[last'.room].gameState = "finished")
       => /\ ~Accepted(last')
          /\ ~HasEvent(last', "quiz-finished")
          /\ rooms'[last'.room].gameState = rooms[last'.room].gameState
          /\ rooms'[last'.room].currentQuestion = rooms[last'.room].currentQuestion
          /\ rooms'[last'.room].timeRemaining = rooms[last'.room].timeRemaining]_vars

(* C3: a submit-answer whose questionIndex differs from the room's
   currentQuestion is rejected: scores and recorded answers are unchanged *)
C3_WrongIndexRejected ==
    [][(last'.op = "submit-answer" /\ last'.room # 0
          /\ last'.qi # rooms[last'.room].currentQuestion)
       => rooms'[last'.room].players = rooms[last'.room].players]_vars

AlreadyAnswered(room, sock, q) ==
    /\ IndexOf(room.players, sock) # 0
    /\ q \in DOMAIN room.players[IndexOf(room.players, sock)].answers
    /\ room.players[IndexOf(room.players, sock)].answers[q] # NoAnswer

(* C4: at most one scored answer per player per question: a submission for a
   question the player has already answered changes neither score nor answer *)
C4_FirstAnswerOnly ==
    [][(last'.op = "submit-answer" /\ last'.room # 0
          /\ AlreadyAnswered(rooms[last'.room], last'.sock, last'.qi))
       => rooms'[last'.room].players = rooms[last'.room].players]_vars

(* C5: start, stop, advance and delete issued by anyone but the room's host
   are rejected and leave every room and the registry unchanged *)
C5_HostOnlyCommands ==
    [][(last'.op \in HostOnlyOps /\ NotHostOf(last'))
       => /\ ~Accepted(last')
          /\ rooms' = rooms
          /\ quizRooms' = quizRooms]_vars

C5_Witness ==
    /\ last.op \in {"stop", "next-question"}
    /\ last.room # 0
    /\ last.addr # "" /\ last.addr # rooms[last.room].hostAddress
    /\ ~Accepted(last)
    /\ rooms[last.room].gameState = "playing"

(* C6: the number of players of a room never exceeds its maxPlayers *)
C6_PlayersWithinCapacity ==
    \A r \in RoomIds : Len(rooms[r].players) <= rooms[r].quizData.maxPlayers

C6_Witness ==
    /\ last.op = "join" /\ last.reply = "Room is full"
    /\ Len(rooms[last.room].players) = rooms[last.room].quizData.maxPlayers

(* C7: a join to a room that is not waiting fails with the error to the caller
   and leaves the players unchanged; a join succeeds only in waiting *)
C7_JoinOnlyWhileWaiting ==
    [][(last'.op = "join" /\ last'.room # 0
          /\ rooms[last'.room].gameState # "waiting")
       => /\ last'.reply = "Game has already started"
          /\ HasEvent(last', "error")
          /\ rooms' = rooms
          /\ players' = players]_vars

C7_Witness ==
    /\ last.op = "join" /\ last.reply = "Game has already started"
    /\ last.from \in {"playing", "finished"}

(* C8: a join by an identity that is already a participant of the room is
   rejected: the players of the room are unchanged *)
C8_DuplicateJoinRejected ==
    [][(last'.op = "join" /\ last'.room # 0
          /\ \E i \in 1..Len(rooms[last'.room].players) :
                rooms[last'.room].players[i].address = last'.addr)
       => /\ ~Accepted(last')
          /\ rooms'[last'.room].players = rooms[last'.room].players]_vars

LeaderboardsOf(cmd) == { cmd.events[i].lb : i \in 1..Len(cmd.events) }

(* C9: no leaderboard snapshot of a playing or finished room names the host:
   not the ones broadcast, not the one handed to reward dispatch, not the one
   calculateLeaderboard stores *)
C9_LeaderboardExcludesHost ==
    /\ \A lb \in LeaderboardsOf(last) : \A i \in 1..Len(lb) :
          lb[i].address # rooms[last.room].hostAddress
    /\ \A k \in 1..Len(passes) : \A i \in 1..Len(passes[k].leaderboard) :
          passes[k].leaderboard[i].address # rooms[passes[k].room].hostAddress
    /\ \A r \in RoomIds : \A i \in 1..Len(calculateLeaderboard(rooms[r])) :
          calculateLeaderboard(rooms[r])[i].address # rooms[r].hostAddress

C9_Witness ==
    /\ last.op = "submit-answer" /\ Accepted(last)
    /\ last.addr = rooms[last.room].hostAddress
    /\ rooms[last.room].players[IndexOf(rooms[last.room].players, last.sock)].score > 0
    /\ \E lb \in LeaderboardsOf(last) : lb # << >>

(* C10: a host stop while playing is a pause: waiting, question 0, no time
   left, timer cleared, players and scores as they were; a later start begins
   at question 0 with the scores retained *)
C10_StopIsPause ==
    [][/\ (last'.op = "stop" /\ Accepted(last') /\ last'.from = "playing")
          => /\ rooms'[last'.room].gameState = "waiting"
             /\ rooms'[last'.room].currentQuestion = 0
             /\ rooms'[last'.room].timeRemaining = 0
             /\ rooms'[last'.room].timerInterval = "none"
             /\ rooms'[last'.room].players = rooms[last'.room].players
       /\ (last'.op \in {"start", "start-quiz"} /\ Accepted(last'))
          => /\ rooms'[last'.room].gameState = "playing"
             /\ rooms'[last'.room].currentQuestion = 0
             /\ rooms'[last'.room].timeRemaining = TimePerQuestion(rooms[last'.room])
             /\ rooms'[last'.room].players = rooms[last'.room].players]_vars

C10_Witness ==
    /\ last.op \in {"start", "start-quiz"} /\ Accepted(last)
    /\ last.from = "waiting"
    /\ ScoredPlayer(rooms[last.room])

(* C11: when the host's connection disconnects, from any gameState, the room
   is fully reset: waiting, question 0, no time left, no players (and with
   them no scores or answers), timer canceled *)
C11_HostDisconnectResets ==
    [][(last'.op = "disconnect" /\ last'.room # 0
          /\ last'.addr = rooms[last'.room].hostAddress)
       => /\ rooms'[last'.room].gameState = "waiting"
          /\ rooms'[last'.room].currentQuestion = 0
          /\ rooms'[last'.room].timeRemaining = 0
          /\ rooms'[last'.room].players = << >>
          /\ rooms'[last'.room].timerInterval = "none"]_vars

C11_Witness ==
    /\ last.op = "disconnect" /\ last.room # 0
    /\ last.addr = rooms[last.room].hostAddress
    /\ last.from = "playing"
    /\ \E s \in Sockets : players[s].roomId = last.code
    /\ rooms[last.room].players = << >>

(* C12: a stale timer never mutates a room: a tick that fires on a room that
   is not playing changes neither timeRemaining nor currentQuestion nor
   gameState, and stop, finish and host disconnect leave no interval armed *)
C12_StaleTimerInert ==
    [][/\ (last'.op = "tick" /\ rooms[last'.room].gameState # "playing")
          => /\ rooms'[last'.room].timeRemaining = rooms[last'.room].timeRemaining
             /\ rooms'[last'.room].currentQuestion = rooms[last'.room].currentQuestion
             /\ rooms'[last'.room].gameState = rooms[last'.room].gameState
       /\ (/\ last'.room # 0 /\ last'.reply # "crash"
           /\ \/ rooms'[last'.room].gameState = "finished"
              \/ last'.op = "stop" /\ Accepted(last')
              \/ /\ last'.op = "disconnect"
                 /\ last'.addr = rooms[last'.room].hostAddress)
          => rooms'[last'.room].timerInterval = "none"]_vars

C12_Witness ==
    /\ last.op = "tick" /\ last.reply = "idle"
    /\ rooms[last.room].gameState # "playing"
    /\ rooms[last.room].timeRemaining > 0

StartOps == {"start", "start-quiz"}

HasNonHostPlayer(room) ==
    \E i \in 1..Len(room.players) : room.players[i].address # room.hostAddress

(* C13: gameState changes only along waiting->playing by an accepted host
   start, playing->finished by the timer or a host advance, playing->waiting
   by host stop, and any->waiting by host disconnect *)
C13_TransitionsOnly ==
    [][\A r \in RoomIds :
         (r <= Len(rooms') /\ rooms'[r].gameState # rooms[r].gameState)
         => \/ /\ rooms[r].gameState = "waiting" /\ rooms'[r].gameState = "playing"
               /\ last'.op \in StartOps /\ Accepted(last')
               /\ ~NotHostOf(last')
            \/ /\ rooms[r].gameState = "playing" /\ rooms'[r].gameState = "finished"
               /\ last'.op \in {"tick", "next-question"}
            \/ /\ rooms[r].gameState = "playing" /\ rooms'[r].gameState = "waiting"
               /\ last'.op = "stop" /\ Accepted(last')
            \/ /\ rooms'[r].gameState = "waiting"
               /\ last'.op = "disconnect"
               /\ last'.addr = rooms[r].hostAddress]_vars

(* C14: a start on a waiting room by a caller who is not the host, or with no
   non-host player in the room, or with a quiz of no questions, is rejected
   and leaves the room as it was: waiting, no timer armed *)
C14_StartPreconditions ==
    [][(/\ last'.op \in StartOps /\ last'.room # 0
        /\ rooms[last'.room].gameState = "waiting"
        /\ \/ NotHostOf(last')
           \/ ~HasNonHostPlayer(rooms[last'.room])
           \/ NumQuestions(rooms[last'.room]) = 0)
       => /\ ~Accepted(last')
          /\ rooms' = rooms]_vars

(* C15: a start on a room that is playing or finished is rejected:
   currentQuestion, timeRemaining and the timer are not reset *)
C15_StartWhileRunningRejected ==
    [][(/\ last'.op \in StartOps /\ last'.room # 0
        /\ rooms[last'.room].gameState \in {"playing", "finished"})
       => /\ ~Accepted(last')
          /\ rooms'[last'.room].gameState = rooms[last'.room].gameState
          /\ rooms'[last'.room].currentQuestion = rooms[last'.room].currentQuestion
          /\ rooms'[last'.room].timeRemaining = rooms[last'.room].timeRemaining
          /\ rooms'[last'.room].timerInterval = rooms[last'.room].timerInterval]_vars

(* C16: while a room is playing every change of currentQuestion is an
   increase, and currentQuestion never exceeds the number of questions *)
C16_QuestionIndexMonotoneBounded ==
    [][\A r \in RoomIds : r <= Len(rooms') =>
         /\ rooms'[r].currentQuestion <= NumQuestions(rooms'[r])
         /\ (rooms[r].gameState = "playing" /\ rooms'[r].gameState = "playing")
            => rooms'[r].currentQuestion >= rooms[r].currentQuestion]_vars

(* C17: while a room stays finished, currentQuestion and timeRemaining do not
   change, whatever command or tick arrives *)
C17_FrozenWhenFinished ==
    [][\A r \in RoomIds :
         (/\ r <= Len(rooms')
          /\ rooms[r].gameState = "finished" /\ rooms'[r].gameState = "finished")
         => /\ rooms'[r].currentQuestion = rooms[r].currentQuestion
            /\ rooms'[r].timeRemaining = rooms[r].timeRemaining]_vars

(* the configured points of the questions whose recorded answer is correct *)
RECURSIVE CorrectPoints(_, _, _)
CorrectPoints(room, player, n) ==
    IF n = 0 THEN 0
    ELSE CorrectPoints(room, player, n - 1) +
         (IF player.answers[n - 1] = room.quizData.questions[n].correctAnswer
          THEN room.quizData.questions[n].points ELSE 0)

(* C18: an accepted answer adds the question's configured points when it is
   correct and 0 otherwise, so that a player's score is the sum of the
   configured points of the questions the player answered correctly *)
C18_ScoreIsSumOfCorrect ==
    /\ \A r \in RoomIds : \A i \in 1..Len(rooms[r].players) :
          rooms[r].players[i].score =
             CorrectPoints(rooms[r], rooms[r].players[i], NumQuestions(rooms[r]))
    /\ (last.op = "submit-answer" /\ Accepted(last)) =>
          \E i \in 1..Len(rooms[last.room].players) :
             /\ rooms[last.room].players[i].id = last.sock
             /\ rooms[last.room].players[i].answers[last.qi] = last.ans

NonHostPlayers(room) ==
    SelectSeq(room.players, LAMBDA p : p.address # room.hostAddress)

(* lb ranks the non-host players of room: each exactly once, position i at
   place i, scores descending, equal scores in join order *)
RanksNonHostPlayers(room, lb) ==
    /\ Len(lb) = Len(NonHostPlayers(room))
    /\ \A i \in 1..Len(lb) :
          /\ lb[i].position = i
          /\ \E j \in 1..Len(room.players) :
                /\ room.players[j].id = lb[i].id
                /\ room.players[j].address = lb[i].address
                /\ room.players[j].score = lb[i].score
                /\ room.players[j].address # room.hostAddress
    /\ \A i, j \in 1..Len(lb) :
          i < j =>
             \/ lb[i].score > lb[j].score
             \/ /\ lb[i].score = lb[j].score
                /\ IndexOf(room.players, lb[i].id) < IndexOf(room.players, lb[j].id)

(* C19: the leaderboard is the non-host players by descending score with
   ranks 1..n in that order, players of equal score in join order; the
   leaderboard the handlers broadcast is the same ranking *)
C19_LeaderboardOrder ==
    last.op = "leaderboard" =>
       /\ RanksNonHostPlayers(rooms[last.room], last.events[1].lb)
       /\ last.events[2].lb =
             [i \in 1..Len(last.events[1].lb) |->
                [address |-> last.events[1].lb[i].address,
                 score |-> last.events[1].lb[i].score,
                 position |-> i]]

C19_Witness ==
    /\ last.op = "leaderboard"
    /\ Len(rooms[last.room].players) > Len(last.events[1].lb)
    /\ Len(last.events[1].lb) >= 2
    /\ last.events[1].lb[1].score = last.events[1].lb[2].score
    /\ last.events[1].lb[1].id # NonHostPlayers(rooms[last.room])[1].id

(* C20: create never returns a code that a live room holds and never
   replaces or removes an entry of the registry *)
C20_CreateKeepsRegistry ==
    [][last'.op = "create"
       => /\ quizRooms[last'.code] = 0
          /\ \A c \in DOMAIN quizRooms :
                c # last'.code => quizRooms'[c] = quizRooms[c]]_vars

ReturnOps == {"ledger-return", "badge-return"}

(* the rewards-distributed event of cmd; cmd has one *)
Outcome(cmd) ==
    cmd.events[CHOOSE i \in 1..Len(cmd.events) :
                  cmd.events[i].ev = "rewards-distributed"]

(* C23: on finish, quiz-finished is emitted first, before any ledger call
   returns and before rewards-distributed; a pass that has to wait for the
   ledger announces nothing until its calls return, and rewards-distributed
   eventually follows every suspended pass *)
C23_FinishedThenRewards ==
    /\ [][/\ \A i, j \in 1..Len(last'.events) :
                (/\ last'.events[i].ev = "quiz-finished"
                 /\ last'.events[j].ev = "rewards-distributed") => i < j
          /\ (Len(passes') > Len(passes)
              => /\ HasEvent(last', "quiz-finished")
                 /\ ~HasEvent(last', "rewards-distributed")
                 /\ passes'[Len(passes')].i = 1
                 /\ passes'[Len(passes')].suiRewards = "null")
          /\ (last'.op \in ReturnOps => ~HasEvent(last', "quiz-finished"))]_vars
    /\ (passes # << >>) ~> HasEvent(last, "rewards-distributed")

C23_Witness ==
    /\ last.op = "badge-return" /\ HasEvent(last, "rewards-distributed")
    /\ Len(Outcome(last).badges) = 3
    /\ Outcome(last).suiRewards # "null"

(* an entry of results.badges that records its call as failed *)
RecordsFailure(entry) == "success" \in DOMAIN entry /\ entry.success = FALSE

(* C24: the results list of a dispatch pass records an outcome per player:
   when the badge call of the last ranked player fails, the results the pass
   reports hold a failure *)
C24_BadgeOutcomesRecorded ==
    (/\ last.op = "badge-return" /\ last.reply = "failed"
     /\ HasEvent(last, "rewards-distributed"))
    => \E i \in 1..Len(Outcome(last).badges) :
          RecordsFailure(Outcome(last).badges[i])

(* C25: rewardsDistributed is set by the completion of a dispatch pass, also
   one with failed badge calls, and once true it stays true *)
C25_RewardsDistributedSetOnce ==
    [][\A r \in RoomIds : r <= Len(rooms') =>
         /\ rooms[r].rewardsDistributed => rooms'[r].rewardsDistributed
         /\ (last'.room = r /\ HasEvent(last', "rewards-distributed"))
            => rooms'[r].rewardsDistributed]_vars

(* C26: a failed ledger call leaves gameState and the players' scores alone
   and is reported in the rewards-distributed event that follows *)
C26_FailureReportedNotRolledBack ==
    [][(last'.op \in ReturnOps /\ last'.reply = "failed")
       => /\ rooms'[last'.room].gameState = rooms[last'.room].gameState
          /\ rooms'[last'.room].players = rooms[last'.room].players
          /\ (HasEvent(last', "rewards-distributed")
              => \/ Outcome(last').success = FALSE
                 \/ Outcome(last').suiRewards = "failed"
                 \/ \E i \in 1..Len(Outcome(last').badges) :
                       RecordsFailure(Outcome(last').badges[i]))]_vars

(* C21: a delete by the host removes the room from the registry and tells the
   joined connections room-closed; a delete for a code without a live room,
   a second delete included, answers not-found and leaves the registry alone *)
C21_DeleteContract ==
    [][last'.op = "delete"
       => /\ (quizRooms[last'.code] = 0
              => /\ last'.reply = "404"
                 /\ last'.events = << >>
                 /\ quizRooms' = quizRooms)
          /\ ((quizRooms[last'.code] # 0 /\ ~NotHostOf(last'))
              => /\ Accepted(last')
                 /\ HasEvent(last', "room-closed")
                 /\ quizRooms' = [quizRooms EXCEPT ![last'.code] = 0])
          /\ (Accepted(last') => quizRooms[last'.code] # 0)
          /\ rooms' = rooms]_vars

C21_Witness ==
    /\ last.op = "delete" /\ last.reply = "404"
    /\ last.addr = "host"
    /\ Len(rooms) > 0 /\ rooms[1].players # << >>

RECURSIVE SumSeq(_)
SumSeq(q) == IF q = << >> THEN 0 ELSE Head(q) + SumSeq(Tail(q))

(* C22: no room is created for a manual percentage list whose sum is not 100 *)
C22_ManualPercentagesSumTo100 ==
    [][(/\ last'.op = "create" /\ Len(rooms') > Len(rooms)
        /\ rooms'[Len(rooms')].quizData.distribution = "manual")
       => SumSeq(rooms'[Len(rooms')].quizData.manualPercentages) = 100]_vars

(* C27: a submit-answer that arrives while the room is not playing gets an
   explicit error and changes no room *)
C27_SubmitRejectionExplicit ==
    [][(/\ last'.op = "submit-answer" /\ last'.room # 0
        /\ rooms[last'.room].gameState # "playing")
       => /\ HasEvent(last', "error")
          /\ rooms' = rooms]_vars

(* C28: leave-room removes the leaving connection and nothing else: also when
   the host leaves, gameState, currentQuestion, timeRemaining, the timer and
   the other players' records stay as they were *)
C28_LeaveRemovesOnlyLeaver ==
    [][(last'.op = "leave" /\ last'.room # 0)
       => /\ Accepted(last')
          /\ IndexOf(rooms'[last'.room].players, last'.sock) = 0
          /\ rooms'[last'.room] =
                [rooms[last'.room] EXCEPT !.players =
                    IF IndexOf(@, last'.sock) = 0 THEN @
                    ELSE RemoveAt(@, IndexOf(@, last'.sock))]
          /\ players' = [players EXCEPT ![last'.sock] = NoPlayer]]_vars

C28_Witness ==
    /\ last.op = "leave" /\ last.room # 0
    /\ last.addr = rooms[last.room].hostAddress
    /\ last.from = "playing"
    /\ rooms[last.room].gameState = "playing"
    /\ rooms[last.room].timerInterval # "none"
    /\ ScoredPlayer(rooms[last.room])

(* C29: the score of a player never goes down while the player stays in the
   room *)
C29_ScoreNeverDecreases ==
    [][\A r \in RoomIds : r <= Len(rooms') =>
         \A i \in 1..Len(rooms[r].players) :
            LET j == IndexOf(rooms'[r].players, rooms[r].players[i].id)
            IN  j # 0 => rooms'[r].players[j].score >= rooms[r].players[i].score]_vars

(* C30: while playing, every tick takes one off timeRemaining and broadcasts
   timer-update; at 0 on a question that is not the last, currentQuestion
   goes up by one and timeRemaining is timePerQuestion again; at 0 on the
   last question the room is finished *)
C30_TimerStep ==
    [][(/\ last'.op = "tick"
        /\ rooms[last'.room].gameState = "playing"
        /\ rooms[last'.room].timeRemaining > 0)
       => /\ last'.reply = "ok"
          /\ HasEvent(last', "timer-update")
          /\ (rooms[last'.room].timeRemaining > 1
              => /\ rooms'[last'.room].timeRemaining =
                       rooms[last'.room].timeRemaining - 1
                 /\ rooms'[last'.room].currentQuestion =
                       rooms[last'.room].currentQuestion
                 /\ rooms'[last'.room].gameState = "playing")
          /\ ((/\ rooms[last'.room].timeRemaining = 1
               /\ rooms[last'.room].currentQuestion
                    < NumQuestions(rooms[last'.room]) - 1)
              => /\ rooms'[last'.room].currentQuestion =
                       rooms[last'.room].currentQuestion + 1
                 /\ rooms'[last'.room].timeRemaining =
                       TimePerQuestion(rooms[last'.room])
                 /\ rooms'[last'.room].gameState = "playing"
                 /\ HasEvent(last', "next-question"))
          /\ ((/\ rooms[last'.room].timeRemaining = 1
               /\ rooms[last'.room].currentQuestion
                    >= NumQuestions(rooms[last'.room]) - 1)
              => /\ rooms'[last'.room].gameState = "finished"
                 /\ HasEvent(last', "quiz-finished"))]_vars

(* C32: a host advance accepted while playing does what timer expiry does: on
   a question that is not the last the room is the one handleTimeUp leaves
   (currentQuestion + 1, timeRemaining = timePerQuestion, playing, the old
   interval replaced by one new interval); on the last question the room is
   finished with no interval armed *)
C32_AdvanceLikeTimeUp ==
    [][(last'.op = "next-question" /\ Accepted(last') /\ last'.from = "playing")
       => IF rooms[last'.room].currentQuestion < NumQuestions(rooms[last'.room]) - 1
          THEN /\ rooms'[last'.room] = handleTimeUp(rooms[last'.room])
               /\ rooms'[last'.room].currentQuestion =
                     rooms[last'.room].currentQuestion + 1
               /\ rooms'[last'.room].timeRemaining =
                     TimePerQuestion(rooms[last'.room])
               /\ rooms'[last'.room].gameState = "playing"
               /\ rooms'[last'.room].timerInterval = "io"
               /\ HasEvent(last', "next-question")
          ELSE /\ rooms'[last'.room].gameState = "finished"
               /\ rooms'[last'.room].gameState =
                     handleTimeUp(rooms[last'.room]).gameState
               /\ rooms'[last'.room].timerInterval = "none"
               /\ rooms'[last'.room].dispatchPasses =
                     handleTimeUp(rooms[last'.room]).dispatchPasses
               /\ HasEvent(last', "quiz-finished")]_vars

C32_Witness ==
    /\ last.op = "next-question" /\ Accepted(last)
    /\ last.from = "playing"
    /\ rooms[last.room].gameState = "playing"
    /\ rooms[last.room].currentQuestion = 1
    /\ rooms[last.room].timerInterval = "io"

(* C33: a room has an interval armed only while it is playing *)
C33_TimerOnlyWhilePlaying ==
    \A r \in RoomIds :
       rooms[r].timerInterval # "none" => rooms[r].gameState = "playing"

(* the room object r is no longer the one its code is registered for *)
Deleted(r) == quizRooms[rooms[r].roomCode] # r

(* C36: after its host has deleted a room, no tick takes effect for it: the
   room is not mutated, nothing is emitted and no dispatch pass is started *)
C36_NoEffectAfterDelete ==
    [][(last'.op = "tick" /\ Deleted(last'.room))
       => /\ last'.reply = "idle"
          /\ last'.events = << >>
          /\ rooms' = rooms
          /\ passes' = passes]_vars

(* C38: a start accepted over the socket does what a start over HTTP does:
   the quiz has questions, and the room is the one POST start leaves, with an
   interval whose ticks broadcast *)
C38_StartEntryPointsAgree ==
    [][(last'.op = "start-quiz" /\ Accepted(last'))
       => /\ NumQuestions(rooms[last'.room]) > 0
          /\ rooms'[last'.room] = startQuiz(rooms[last'.room], "io")]_vars

RoomsOf(sock) ==
    { r \in RoomIds : ~Deleted(r) /\ IndexOf(rooms[r].players, sock) # 0 }

(* C37: a connection is a participant of at most one registered room at a
   time, also when it joins a second room without leaving the first *)
C37_OneRoomPerConnection ==
    \A s \in Sockets : Cardinality(RoomsOf(s)) <= 1

(* C34: reward dispatch works on a snapshot taken at finish: while a pass is
   suspended no event changes the winners and amounts of its ledger request
   or the winner, position and score of a badge it has yet to build *)
C34_DispatchOnSnapshot ==
    [][Len(passes') >= Len(passes)
       => \A k \in 1..Len(passes) :
             /\ passes'[k].request = passes[k].request
             /\ \A i \in (Len(passes'[k].results) + 1)..Len(passes[k].leaderboard) :
                   BadgeData(rooms'[passes[k].room], passes'[k].leaderboard, i)
                     = BadgeData(rooms[passes[k].room], passes[k].leaderboard, i)]_vars

(* C35: the request a pass submits to the ledger lists the first ranked
   players, min(3, n) of them with the top-3 rule and as many as there are
   percentages with the manual rule, each with floor(pool * percentage / 100);
   a pass of a room with a pool submits one request, and the amounts of a
   request never add up to more than the pool *)
C35_SharesWithinPool ==
    \A k \in 1..Len(passes) :
       LET room == rooms[passes[k].room]
           pool == room.quizData.suiAmount * MistPerSui
           request == passes[k].request
       IN  /\ pool > 0 => (passes[k].pc = "sui") = (passes[k].suiRewards = "null")
           /\ passes[k].pc = "sui" =>
                /\ Len(request.winners) = Len(request.amounts)
                /\ Len(request.winners) =
                      Min(Len(Percentages(room)), Len(passes[k].leaderboard))
                /\ \A i \in 1..Len(request.winners) :
                      /\ request.winners[i] = passes[k].leaderboard[i].address
                      /\ request.amounts[i] = Share(pool, Percentages(room)[i])
                /\ SumSeq(request.amounts) <= pool

(* C31: under fair timer ticks a room that is playing and gets no further
   host command eventually is finished with its reward dispatch invoked *)
C31_TimerDrivesToFinish ==
    (Len(rooms) > 0 /\ rooms[1].gameState = "playing")
       ~> (/\ Len(rooms) > 0
           /\ rooms[1].gameState = "finished"
           /\ rooms[1].dispatchPasses > 0)

(* C40: on a quiz object distribute_rewards succeeds only when the sender is
   the creator, rewards are not yet distributed, payment was collected,
   winners and amounts have equal length and the amounts sum to at most the
   pool, so at most once; an aborted transaction changes nothing;
   is_rewards_distributed never returns to false, reward_pool_amount never
   increases, and refund_remaining_rewards aborts until rewards are
   distributed *)
C40_PayoutGuard ==
    [][/\ (tx'.fn = "distribute_rewards" /\ tx'.status = "success")
          => /\ quizzes[tx'.quiz].creator = tx'.sender
             /\ ~quizzes[tx'.quiz].is_rewards_distributed
             /\ quizzes[tx'.quiz].is_payment_collected
             /\ Len(tx'.winners) = Len(tx'.amounts)
             /\ SumSeq(tx'.amounts) <= quizzes[tx'.quiz].reward_pool_amount
             /\ quizzes'[tx'.quiz].is_rewards_distributed
             /\ quizzes'[tx'.quiz].reward_pool_amount =
                   quizzes[tx'.quiz].reward_pool_amount - SumSeq(tx'.amounts)
       /\ (tx'.status # "success" => quizzes' = quizzes)
       /\ \A q \in 1..Len(quizzes) :
             /\ quizzes[q].is_rewards_distributed
                  => quizzes'[q].is_rewards_distributed
             /\ quizzes'[q].reward_pool_amount <= quizzes[q].reward_pool_amount
       /\ (/\ tx'.fn = "refund_remaining_rewards"
           /\ ~quizzes[tx'.quiz].is_rewards_distributed)
          => tx'.status # "success"]_vars

C40_Witness ==
    /\ tx.fn = "distribute_rewards" /\ tx.status = "abort 2"
    /\ quizzes[tx.quiz].creator = tx.sender
    /\ quizzes[tx.quiz].reward_pool_amount > 0
    /\ SumSeq(tx.amounts) <= quizzes[tx.quiz].reward_pool_amount
    /\ Len(tx.winners) = Len(tx.amounts) /\ Len(tx.winners) > 0

====
